---- MODULE Spec2Model ----
(***************************************************************************)
(* Model of src/integrations.py: the four Memphora framework adapters      *)
(* (MemphoraLangChain, MemphoraLlamaIndex, MemphoraCrewAI, MemphoraAutoGen)*)
(* as state machines over their fields and their backend client.           *)
(*                                                                         *)
(* Every public method is one action.  The variable `last` records the     *)
(* call that has just returned: its name, its arguments, the external      *)
(* calls it made in order (`calls`), whether it ended by raising           *)
(* (`raised`) and what it returned (`ret`).  A backend call may raise      *)
(* (network or credential error): input failAt = k makes the k-th backend  *)
(* call of the handler raise, failAt = 0 lets all of them succeed.         *)
(***************************************************************************)
EXTENDS Integers, Sequences, FiniteSets, TLC

VARIABLES langchain, llama, crew, heap, returned, autogen, agent, last

vars == <<langchain, llama, crew, heap, returned, autogen, agent, last>>

\* ------------------------------------------------------------------ bounds
\* Largest index of a backend call that the environment makes raise.
MaxFailAt == 2
\* Largest number of records a backend client holds in a run.
MaxStore == 2
\* Largest length of a chat history, and of a list passed to set().
MaxMsgs == 3
\* Largest length of the AutoGen message buffer.
MaxBuffer == 1
\* Largest number of times one agent's receive is wrapped.
MaxDepth == 2

\* ------------------------------------------------------------ Python idioms
\* dict.get(key, default)
DictGet(d, k, default) == IF k \in DOMAIN d THEN d[k] ELSE default

\* truth value of a str: the empty string is falsy
Truthy(s) == s # ""

\* A Python dict with string values over a subset of the keys in K.
Dicts(K, V) == UNION {[D -> V] : D \in SUBSET K}

\* ------------------------------------------------------ the handler machine
\* A handler runs on a record m: the backend client's records (mem), the
\* external calls made so far, whether an exception is propagating, and the
\* index of the backend call that raises.
Begin(mem, failAt) == [mem |-> mem, calls |-> <<>>, raised |-> FALSE, failAt |-> failAt]

\* One call into the backend client: c is the call, mem2 the client's records
\* after it when it succeeds.  Nothing runs once an exception propagates.
Invoke(m, c, mem2) ==
    IF m.raised THEN m
    ELSE IF Len(m.calls) + 1 = m.failAt
         THEN [m EXCEPT !.calls = Append(@, c), !.raised = TRUE]
         ELSE [m EXCEPT !.calls = Append(@, c), !.mem = mem2]

\* The failure points worth choosing for a handler that makes at most n
\* backend calls: 0 (none fails) up to the n-th call, within the bound.
FailAts(n) == 0..(IF n < MaxFailAt THEN n ELSE MaxFailAt)

\* ---------------------------------------------------- backend client (SDK)
\* memphora_sdk.Memphora is imported, not defined, by integrations.py: its
\* operations are modelled from the interface the adapters consume.
Memphora_store_conversation(mem, human, ai) ==
    Append(mem, [kind |-> "conversation", human |-> human, ai |-> ai])

Memphora_clear(mem) == <<>>

\* Context text the backend may return for a query (ranking is opaque).
Contexts == {"", "ctx"}

\* =========================================================================
\* LangChain integration
\* =========================================================================
LCKeys == {"input", "question"}
LCOutKeys == {"output", "text"}
LCValues == {"", "hi"}

\* MemphoraLangChain.__init__
MemphoraLangChain_init(input_key, return_messages) ==
    [ memphora        |-> <<>>,
      memory_key      |-> "history",
      input_key       |-> input_key,
      output_key      |-> "output",
      return_messages |-> return_messages ]

StrPayload(s) == [kind |-> "str", text |-> s]
ListPayload(items) == [kind |-> "list", items |-> items]

\* MemphoraLangChain._format_as_messages
format_as_messages(context) ==
    IF ~Truthy(context) THEN <<>>
    ELSE << [role |-> "system", content |-> <<"Relevant context:\n", context>>] >>

\* Variant of load_memory_variables whose early return ignores return_messages.
load_memory_variables_body_listonly(self, inputs, context, failAt) ==
    LET query == DictGet(inputs, self.input_key, "")
        m0 == Begin(self.memphora, failAt)
    IN  IF ~Truthy(query)
        THEN [m |-> m0, ret |-> [key |-> self.memory_key, value |-> ListPayload(<<>>)]]
        ELSE LET m1 == Invoke(m0, [fn |-> "get_context", query |-> query, limit |-> 10],
                              m0.mem)
             IN [m |-> m1,
                 ret |-> [key |-> self.memory_key,
                          value |-> IF self.return_messages
                                    THEN ListPayload(format_as_messages(context))
                                    ELSE StrPayload(context)]]

\* MemphoraLangChain.load_memory_variables: result record of the handler.
load_memory_variables_body(self, inputs, context, failAt) ==
    LET query == DictGet(inputs, self.input_key, "")
        m0 == Begin(self.memphora, failAt)
    IN  IF ~Truthy(query)
        THEN [m |-> m0,
              ret |-> [key |-> self.memory_key,
                       value |-> IF self.return_messages THEN ListPayload(<<>>)
                                 ELSE StrPayload("")]]
        ELSE LET m1 == Invoke(m0, [fn |-> "get_context", query |-> query, limit |-> 10],
                              m0.mem)
             IN [m |-> m1,
                 ret |-> [key |-> self.memory_key,
                          value |-> IF self.return_messages
                                    THEN ListPayload(format_as_messages(context))
                                    ELSE StrPayload(context)]]

\* Variant of save_context that stores when either side of the turn is present.
save_context_body_either(self, inputs, outputs, failAt) ==
    LET human_input == DictGet(inputs, self.input_key, "")
        ai_output == DictGet(outputs, self.output_key, "")
        m0 == Begin(self.memphora, failAt)
    IN  IF Truthy(human_input) \/ Truthy(ai_output)
        THEN Invoke(m0, [fn |-> "store_conversation", human |-> human_input, ai |-> ai_output],
                    Memphora_store_conversation(m0.mem, human_input, ai_output))
        ELSE m0

\* MemphoraLangChain.save_context: result record of the handler.
save_context_body(self, inputs, outputs, failAt) ==
    LET human_input == DictGet(inputs, self.input_key, "")
        ai_output == DictGet(outputs, self.output_key, "")
        m0 == Begin(self.memphora, failAt)
    IN  IF Truthy(human_input) /\ Truthy(ai_output)
        THEN Invoke(m0, [fn |-> "store_conversation", human |-> human_input, ai |-> ai_output],
                    Memphora_store_conversation(m0.mem, human_input, ai_output))
        ELSE m0

\* MemphoraLangChain.clear: result record of the handler.
clear_body(self, failAt) ==
    LET m0 == Begin(self.memphora, failAt)
    IN  Invoke(m0, [fn |-> "clear"], Memphora_clear(m0.mem))

OthersLC == <<llama, crew, heap, returned, autogen, agent>>

load_memory_variables ==
    \E inputs \in Dicts(LCKeys, LCValues), context \in Contexts, failAt \in FailAts(1) :
        LET r == load_memory_variables_body(langchain, inputs, context, failAt)
        IN  /\ langchain' = [langchain EXCEPT !.memphora = r.m.mem]
            /\ last' = [op |-> "load_memory_variables", inputs |-> inputs,
                        calls |-> r.m.calls, raised |-> r.m.raised,
                        ret |-> IF r.m.raised THEN [key |-> "raised"] ELSE r.ret]
            /\ UNCHANGED OthersLC

save_context ==
    \E inputs \in Dicts(LCKeys, LCValues), outputs \in Dicts(LCOutKeys, LCValues),
       failAt \in FailAts(1) :
        LET m == save_context_body(langchain, inputs, outputs, failAt)
        IN  /\ Len(m.mem) <= MaxStore
            /\ langchain' = [langchain EXCEPT !.memphora = m.mem]
            /\ last' = [op |-> "save_context", inputs |-> inputs, outputs |-> outputs,
                        calls |-> m.calls, raised |-> m.raised]
            /\ UNCHANGED OthersLC

clear ==
    \E failAt \in FailAts(1) :
        LET m == clear_body(langchain, failAt)
        IN  /\ langchain' = [langchain EXCEPT !.memphora = m.mem]
            /\ last' = [op |-> "clear", calls |-> m.calls, raised |-> m.raised]
            /\ UNCHANGED OthersLC

\* =========================================================================
\* LlamaIndex integration
\* =========================================================================
\* The adapter's own state is _chat_history.  Its backend client is only
\* written to (store_conversation) or queried (get_context): the calls are
\* observed in last.calls.
ChatContents == {"hi", "hey"}

ChatMessage(role, content) == [role |-> role, content |-> content]

\* Messages a caller passes to set(): the three roles, in and out of order.
ChatMessages ==
    { ChatMessage("user", "hi"), ChatMessage("user", "bye"),
      ChatMessage("assistant", "hey"), ChatMessage("system", "hi") }

\* Lists of at most n elements of S.
SeqsUpTo(S, n) == UNION {[1..k -> S] : k \in 0..n}

store_conversation_call(human, ai) == [fn |-> "store_conversation", human |-> human, ai |-> ai]

\* MemphoraLlamaIndex.__init__
MemphoraLlamaIndex_init == [chat_history |-> <<>>]

\* MemphoraLlamaIndex.get: result record of the handler.
MemphoraLlamaIndex_get_body(self, query, limit, context, failAt) ==
    LET m0 == Begin(<<>>, failAt)
    IN  IF Truthy(query)
        THEN [m |-> Invoke(m0, [fn |-> "get_context", query |-> query, limit |-> limit], m0.mem),
              ret |-> context]
        ELSE [m |-> m0, ret |-> ""]

\* Variant of put that appends to the buffer before it calls the backend.
MemphoraLlamaIndex_put_body_appendfirst(self, user_message, assistant_message, failAt) ==
    LET m0 == Begin(<<>>, failAt)
        m1 == Invoke(m0, store_conversation_call(user_message, assistant_message), m0.mem)
    IN  [m |-> m1,
         self |-> [self EXCEPT !.chat_history =
                       @ \o << ChatMessage("user", user_message),
                               ChatMessage("assistant", assistant_message) >>]]

\* MemphoraLlamaIndex.put: result record of the handler.
MemphoraLlamaIndex_put_body(self, user_message, assistant_message, failAt) ==
    LET m0 == Begin(<<>>, failAt)
        m1 == Invoke(m0, store_conversation_call(user_message, assistant_message), m0.mem)
        s1 == IF m1.raised THEN self
              ELSE [self EXCEPT !.chat_history = Append(@, ChatMessage("user", user_message))]
        s2 == IF m1.raised THEN s1
              ELSE [s1 EXCEPT !.chat_history =
                        Append(@, ChatMessage("assistant", assistant_message))]
    IN  [m |-> m1, self |-> s2]

\* MemphoraLlamaIndex.get_all
MemphoraLlamaIndex_get_all_body(self) == self.chat_history

\* MemphoraLlamaIndex.reset
MemphoraLlamaIndex_reset_body(self) == [self EXCEPT !.chat_history = <<>>]

\* Variant of the loop of set that slides over every adjacent pair (step 1).
RECURSIVE set_loop_step1(_, _, _)
set_loop_step1(m, messages, i) ==
    IF i >= Len(messages) - 1 \/ m.raised THEN m
    ELSE LET m1 == IF messages[i + 1].role = "user" /\ messages[i + 2].role = "assistant"
                   THEN Invoke(m, store_conversation_call(messages[i + 1].content,
                                                          messages[i + 2].content), m.mem)
                   ELSE m
         IN  set_loop_step1(m1, messages, i + 1)

\* The loop of set: for i in range(0, len(messages) - 1, 2), i counted from 0.
RECURSIVE set_loop(_, _, _)
set_loop(m, messages, i) ==
    IF i >= Len(messages) - 1 \/ m.raised THEN m
    ELSE LET m1 == IF messages[i + 1].role = "user" /\ messages[i + 2].role = "assistant"
                   THEN Invoke(m, store_conversation_call(messages[i + 1].content,
                                                          messages[i + 2].content), m.mem)
                   ELSE m
         IN  set_loop(m1, messages, i + 2)

\* MemphoraLlamaIndex.set: result record of the handler.
MemphoraLlamaIndex_set_body(self, messages, failAt) ==
    LET s1 == [self EXCEPT !.chat_history = messages]
    IN  [m |-> set_loop(Begin(<<>>, failAt), messages, 0), self |-> s1]

\* A message handed to the host wrapper: an object with role and content, or
\* some other object without them.
WrapperMessages ==
    {[attrs |-> TRUE, role |-> r, content |-> c] : r \in {"user", "assistant", "system"},
                                                   c \in {"hey", "bye"}}
    \cup {[attrs |-> FALSE]}

\* Variant of the wrapper's put that pairs with the last entry whatever its role.
MemphoraLlamaMemory_put_body_anyrole(self, message, failAt) ==
    IF message.attrs /\ message.role = "assistant"
    THEN LET history == MemphoraLlamaIndex_get_all_body(self)
         IN  IF history # <<>>
             THEN MemphoraLlamaIndex_put_body(self, history[Len(history)].content,
                                              message.content, failAt)
             ELSE [m |-> Begin(<<>>, failAt), self |-> self]
    ELSE [m |-> Begin(<<>>, failAt), self |-> self]

\* MemphoraLlamaMemory.put (the wrapper as_chat_memory returns).
MemphoraLlamaMemory_put_body(self, message, failAt) ==
    IF message.attrs /\ message.role = "assistant"
    THEN LET history == MemphoraLlamaIndex_get_all_body(self)
         IN  IF history # <<>> /\ history[Len(history)].role = "user"
             THEN MemphoraLlamaIndex_put_body(self, history[Len(history)].content,
                                              message.content, failAt)
             ELSE [m |-> Begin(<<>>, failAt), self |-> self]
    ELSE [m |-> Begin(<<>>, failAt), self |-> self]

\* Number of the pairs that set() may store from a list.
PairCount(messages) == Len(messages) \div 2

OthersLI == <<langchain, crew, heap, returned, autogen, agent>>

MemphoraLlamaIndex_get ==
    \E query \in {"", "hi"}, limit \in {10}, context \in Contexts, failAt \in FailAts(1) :
        LET r == MemphoraLlamaIndex_get_body(llama, query, limit, context, failAt)
        IN  /\ last' = [op |-> "get", query |-> query, calls |-> r.m.calls,
                        raised |-> r.m.raised,
                        ret |-> IF r.m.raised THEN "" ELSE r.ret]
            /\ UNCHANGED <<llama, OthersLI>>

MemphoraLlamaIndex_put ==
    \E user_message \in ChatContents, assistant_message \in ChatContents,
       failAt \in FailAts(1) :
        LET r == MemphoraLlamaIndex_put_body(llama, user_message, assistant_message, failAt)
        IN  /\ Len(r.self.chat_history) <= MaxMsgs
            /\ llama' = r.self
            /\ last' = [op |-> "put", user_message |-> user_message,
                        assistant_message |-> assistant_message,
                        calls |-> r.m.calls, raised |-> r.m.raised]
            /\ UNCHANGED OthersLI

MemphoraLlamaIndex_get_all ==
    /\ last' = [op |-> "get_all", calls |-> <<>>, raised |-> FALSE,
                ret |-> MemphoraLlamaIndex_get_all_body(llama)]
    /\ UNCHANGED <<llama, OthersLI>>

MemphoraLlamaIndex_reset ==
    /\ llama' = MemphoraLlamaIndex_reset_body(llama)
    /\ last' = [op |-> "reset", calls |-> <<>>, raised |-> FALSE]
    /\ UNCHANGED OthersLI

MemphoraLlamaIndex_set ==
    \E messages \in SeqsUpTo(ChatMessages, MaxMsgs) :
        \E failAt \in FailAts(PairCount(messages)) :
            LET r == MemphoraLlamaIndex_set_body(llama, messages, failAt)
            IN  /\ llama' = r.self
                /\ last' = [op |-> "set", messages |-> messages,
                            calls |-> r.m.calls, raised |-> r.m.raised]
                /\ UNCHANGED OthersLI

MemphoraLlamaMemory_put ==
    \E message \in WrapperMessages, failAt \in FailAts(1) :
        LET r == MemphoraLlamaMemory_put_body(llama, message, failAt)
        IN  /\ Len(r.self.chat_history) <= MaxMsgs
            /\ llama' = r.self
            /\ last' = [op |-> "wrapper_put", message |-> message,
                        calls |-> r.m.calls, raised |-> r.m.raised]
            /\ UNCHANGED OthersLI

\* MemphoraLlamaMemory.reset
MemphoraLlamaMemory_reset ==
    /\ llama' = MemphoraLlamaIndex_reset_body(llama)
    /\ last' = [op |-> "wrapper_reset", calls |-> <<>>, raised |-> FALSE]
    /\ UNCHANGED OthersLI

\* =========================================================================
\* CrewAI integration
\* =========================================================================
\* MemphoraAgentMemory objects live in `heap`; a handle is an index into it,
\* so two handles are the same object exactly when the indices are equal.
\* `returned` keeps every (agent_id, handle) that for_agent has returned.
AgentIds == {"researcher", "writer", "editor"}
CrewContents == {"note"}

\* Optional[Dict]: None or a dict.
NoneValue == [none |-> TRUE]
SomeDict(d) == [none |-> FALSE, dict |-> d]
Metadatas == {NoneValue} \cup {SomeDict(d) : d \in Dicts({"shared"}, {"no"})}

\* d[k] = v on a dict
DictSet(d, k, v) == [x \in DOMAIN d \cup {k} |-> IF x = k THEN v ELSE d[x]]

\* Results a backend search may return.
SearchResults == {[facts |-> <<>>], [facts |-> <<"f1">>]}

Memphora_store_group_memory(mem, group_id, content, meta) ==
    Append(mem, [kind |-> "group", group_id |-> group_id, content |-> content,
                 metadata |-> meta])

Memphora_store_agent_memory(mem, agent_id, content, metadata) ==
    Append(mem, [kind |-> "agent", agent_id |-> agent_id, content |-> content,
                 metadata |-> metadata])

\* MemphoraCrewAI.__init__
MemphoraCrewAI_init(crew_id) ==
    [memphora |-> <<>>, crew_id |-> crew_id, agent_memories |-> <<>>]

\* MemphoraAgentMemory.__init__
MemphoraAgentMemory_init(agent_id, crew_id) == [agent_id |-> agent_id, crew_id |-> crew_id]

\* Variant of for_agent that builds a new MemphoraAgentMemory on every call.
for_agent_body_nomemo(self, objects, agent_id) ==
    LET h == Len(objects) + 1
    IN  [self |-> [self EXCEPT !.agent_memories = DictSet(@, agent_id, h)],
         heap |-> Append(objects, MemphoraAgentMemory_init(agent_id, self.crew_id)),
         ret  |-> h]

\* MemphoraCrewAI.for_agent: the adapter, the heap and the handle returned.
for_agent_body(self, objects, agent_id) ==
    IF agent_id \notin DOMAIN self.agent_memories
    THEN LET h == Len(objects) + 1
         IN  [self |-> [self EXCEPT !.agent_memories = DictSet(@, agent_id, h)],
              heap |-> Append(objects, MemphoraAgentMemory_init(agent_id, self.crew_id)),
              ret  |-> h]
    ELSE [self |-> self, heap |-> objects, ret |-> self.agent_memories[agent_id]]

\* MemphoraCrewAI.store_shared
store_shared_body(self, content, metadata, failAt) ==
    LET meta0 == IF metadata.none \/ DOMAIN metadata.dict = {} THEN <<>> ELSE metadata.dict
        meta1 == DictSet(meta0, "shared", "True")
        meta2 == DictSet(meta1, "crew_id", self.crew_id)
        m0 == Begin(self.memphora, failAt)
    IN  Invoke(m0, [fn |-> "store_group_memory", group_id |-> self.crew_id,
                    content |-> content, metadata |-> meta2],
               Memphora_store_group_memory(m0.mem, self.crew_id, content, meta2))

\* MemphoraCrewAI.search_shared
search_shared_body(self, query, limit, failAt) ==
    LET m0 == Begin(self.memphora, failAt)
    IN  Invoke(m0, [fn |-> "search_group_memories", group_id |-> self.crew_id,
                    query |-> query, limit |-> limit], m0.mem)

\* MemphoraCrewAI.get_crew_context
get_crew_context_body(self, limit, failAt) ==
    LET m0 == Begin(self.memphora, failAt)
    IN  Invoke(m0, [fn |-> "get_group_context", group_id |-> self.crew_id,
                    limit |-> limit], m0.mem)

\* MemphoraAgentMemory.store
MemphoraAgentMemory_store_body(obj, mem, content, metadata, failAt) ==
    LET m0 == Begin(mem, failAt)
    IN  Invoke(m0, [fn |-> "store_agent_memory", agent_id |-> obj.agent_id,
                    content |-> content, metadata |-> metadata],
               Memphora_store_agent_memory(m0.mem, obj.agent_id, content, metadata))

\* MemphoraAgentMemory.search
MemphoraAgentMemory_search_body(obj, mem, query, limit, failAt) ==
    LET m0 == Begin(mem, failAt)
    IN  Invoke(m0, [fn |-> "search_agent_memories", agent_id |-> obj.agent_id,
                    query |-> query, limit |-> limit], m0.mem)

\* MemphoraAgentMemory.get_all
MemphoraAgentMemory_get_all_body(obj, mem, limit, failAt) ==
    LET m0 == Begin(mem, failAt)
    IN  Invoke(m0, [fn |-> "get_agent_memories", agent_id |-> obj.agent_id,
                    limit |-> limit], m0.mem)

\* MemphoraAgentMemory.search_crew
MemphoraAgentMemory_search_crew_body(obj, mem, query, limit, failAt) ==
    LET m0 == Begin(mem, failAt)
    IN  Invoke(m0, [fn |-> "search_group_memories", group_id |-> obj.crew_id,
                    query |-> query, limit |-> limit], m0.mem)

OthersCrew == <<langchain, llama, autogen, agent>>

\* What a method that only forwards to the backend leaves in `last`.
Forwarded(op, m, result) ==
    [op |-> op, calls |-> m.calls, raised |-> m.raised,
     ret |-> IF m.raised THEN [facts |-> <<>>] ELSE result]

for_agent ==
    \E agent_id \in AgentIds :
        LET r == for_agent_body(crew, heap, agent_id)
        IN  /\ crew' = r.self
            /\ heap' = r.heap
            /\ returned' = returned \cup {[agent_id |-> agent_id, handle |-> r.ret]}
            /\ last' = [op |-> "for_agent", agent_id |-> agent_id, calls |-> <<>>,
                        raised |-> FALSE, ret |-> r.ret]
            /\ UNCHANGED OthersCrew

store_shared ==
    \E content \in CrewContents, metadata \in Metadatas, failAt \in FailAts(1) :
        LET m == store_shared_body(crew, content, metadata, failAt)
        IN  /\ Len(m.mem) <= MaxStore
            /\ crew' = [crew EXCEPT !.memphora = m.mem]
            /\ last' = [op |-> "store_shared", calls |-> m.calls, raised |-> m.raised]
            /\ UNCHANGED <<heap, returned, OthersCrew>>

search_shared ==
    \E result \in SearchResults, failAt \in FailAts(1) :
        LET m == search_shared_body(crew, "q", 10, failAt)
        IN  /\ last' = Forwarded("search_shared", m, result)
            /\ UNCHANGED <<crew, heap, returned, OthersCrew>>

get_crew_context ==
    \E context \in Contexts, failAt \in FailAts(1) :
        LET m == get_crew_context_body(crew, 50, failAt)
        IN  /\ last' = [op |-> "get_crew_context", calls |-> m.calls, raised |-> m.raised,
                        ret |-> IF m.raised THEN "" ELSE context]
            /\ UNCHANGED <<crew, heap, returned, OthersCrew>>

MemphoraAgentMemory_store ==
    \E h \in 1..Len(heap), content \in CrewContents,
       metadata \in {NoneValue, SomeDict([k \in {"shared"} |-> "no"])}, failAt \in FailAts(1) :
        LET m == MemphoraAgentMemory_store_body(heap[h], crew.memphora, content, metadata, failAt)
        IN  /\ Len(m.mem) <= MaxStore
            /\ crew' = [crew EXCEPT !.memphora = m.mem]
            /\ last' = [op |-> "agent_store", handle |-> h, calls |-> m.calls,
                        raised |-> m.raised]
            /\ UNCHANGED <<heap, returned, OthersCrew>>

MemphoraAgentMemory_search ==
    \E h \in 1..Len(heap), result \in SearchResults, failAt \in FailAts(1) :
        LET m == MemphoraAgentMemory_search_body(heap[h], crew.memphora, "q", 10, failAt)
        IN  /\ last' = Forwarded("agent_search", m, result)
            /\ UNCHANGED <<crew, heap, returned, OthersCrew>>

MemphoraAgentMemory_get_all ==
    \E h \in 1..Len(heap), result \in SearchResults, failAt \in FailAts(1) :
        LET m == MemphoraAgentMemory_get_all_body(heap[h], crew.memphora, 100, failAt)
        IN  /\ last' = Forwarded("agent_get_all", m, result)
            /\ UNCHANGED <<crew, heap, returned, OthersCrew>>

MemphoraAgentMemory_search_crew ==
    \E h \in 1..Len(heap), result \in SearchResults, failAt \in FailAts(1) :
        LET m == MemphoraAgentMemory_search_crew_body(heap[h], crew.memphora, "q", 10, failAt)
        IN  /\ last' = Forwarded("agent_search_crew", m, result)
            /\ UNCHANGED <<crew, heap, returned, OthersCrew>>

\* =========================================================================
\* AutoGen integration
\* =========================================================================
\* A text in the state is a string; Chars gives its characters, on which
\* lower() and the substring test are computed.  A formatted string
\* f"ESCALATION: {content}" is kept as the pair of its parts.
Chars(text) ==
    CASE text = "" -> <<>>
      [] text = "hello" -> <<"h", "e", "l", "l", "o">>
      [] text = "please escalate now" -> <<"p", "l", "e", "a", "s", "e", " ", "e", "s", "c", "a", "l", "a", "t", "e", " ", "n", "o", "w">>
      [] text = "Ask a HUMAN" -> <<"A", "s", "k", " ", "a", " ", "H", "U", "M", "A", "N">>
      [] text = "Help Needed!" -> <<"H", "e", "l", "p", " ", "N", "e", "e", "d", "e", "d", "!">>
      [] text = "helpneeded" -> <<"h", "e", "l", "p", "n", "e", "e", "d", "e", "d">>
      [] text = "the Supervisor" -> <<"t", "h", "e", " ", "S", "u", "p", "e", "r", "v", "i", "s", "o", "r">>
      [] text = "inhumane" -> <<"i", "n", "h", "u", "m", "a", "n", "e">>
      [] text = "escalat e" -> <<"e", "s", "c", "a", "l", "a", "t", " ", "e">>

UpperCase == <<"A", "B", "C", "D", "E", "F", "G", "H", "I", "J", "K", "L", "M", "N", "O", "P", "Q", "R", "S", "T", "U", "V", "W", "X", "Y", "Z">>
LowerCase == <<"a", "b", "c", "d", "e", "f", "g", "h", "i", "j", "k", "l", "m", "n", "o", "p", "q", "r", "s", "t", "u", "v", "w", "x", "y", "z">>

\* str.lower() on one character, and on a string
lower_char(c) ==
    IF \E i \in 1..Len(UpperCase) : UpperCase[i] = c
    THEN LowerCase[CHOOSE i \in 1..Len(UpperCase) : UpperCase[i] = c]
    ELSE c

str_lower(chars) == [i \in 1..Len(chars) |-> lower_char(chars[i])]

\* kw in text
str_contains(kw, chars) ==
    \E i \in 1..(Len(chars) - Len(kw) + 1) : SubSeq(chars, i, i + Len(kw) - 1) = kw

\* escalation_keywords of _on_message
escalation_keywords ==
    << <<"e", "s", "c", "a", "l", "a", "t", "e">>,
       <<"h", "u", "m", "a", "n">>,
       <<"s", "u", "p", "e", "r", "v", "i", "s", "o", "r">>,
       <<"h", "e", "l", "p", " ", "n", "e", "e", "d", "e", "d">> >>

\* Texts of the messages the agents exchange.
MessageTexts ==
    {"hello", "please escalate now", "Ask a HUMAN", "Help Needed!", "helpneeded",
     "the Supervisor", "inhumane", "escalat e"}

\* any(kw in chars for kw in escalation_keywords)
any_keyword_in(chars) ==
    \E k \in 1..Len(escalation_keywords) : str_contains(escalation_keywords[k], chars)

\* The keyword test of _on_message, computed once for each text.
keyword_test == [t \in MessageTexts \cup {""} |-> any_keyword_in(str_lower(Chars(t)))]

\* The same test on the content as written, without lower().
keyword_test_cased == [t \in MessageTexts \cup {""} |-> any_keyword_in(Chars(t))]

\* Variant of the keyword test that scans the content without lower().
has_escalation_keyword_cased(content) == keyword_test_cased[content]

\* any(kw in content.lower() for kw in escalation_keywords)
has_escalation_keyword(content) == keyword_test[content]

\* An inbound message: a plain str, or a dict with or without "content".
StrMessage(text) == [kind |-> "str", text |-> text]
DictMessage(text) == [kind |-> "dict", has_content |-> TRUE, content |-> text]
DictNoContent == [kind |-> "dict", has_content |-> FALSE]

\* A sender: an agent object with a name, or an object without one.
NamedSender == [has_name |-> TRUE, name |-> "bob"]
NamelessSender == [has_name |-> FALSE]

\* The (message, sender) pairs delivered to the agent: every shape of
\* message, with and without content, from both kinds of sender.
Deliveries ==
    { <<StrMessage(""), NamedSender>>,
      <<DictMessage(""), NamelessSender>>,
      <<DictNoContent, NamedSender>>,
      <<StrMessage("hello"), NamelessSender>>,
      <<StrMessage("Ask a HUMAN"), NamedSender>>,
      <<DictMessage("please escalate now"), NamedSender>> }

\* getattr(obj, 'name', 'unknown')
name_of(obj) == IF obj.has_name THEN obj.name ELSE "unknown"

\* (request_reply, silent) of a receive call and the value the agent's
\* original receive returns for it.
ReceiveCalls == {<<TRUE, FALSE, "None">>, <<FALSE, TRUE, "reply">>}

\* MemphoraAutoGen.__init__
MemphoraAutoGen_init(session_id, track_escalations) ==
    [ memphora          |-> <<>>,
      session_id        |-> session_id,
      track_escalations |-> track_escalations,
      message_buffer    |-> <<>> ]

\* An AutoGen agent whose receive has been wrapped `depth` times.
Agent_init(has_name) == [has_name |-> has_name, name |-> "alice", depth |-> 0]

\* message if isinstance(message, str) else message.get("content", "")
content_of(message) ==
    IF message.kind = "str" THEN message.text
    ELSE IF message.has_content THEN message.content ELSE ""

message_record_call(self, content, sender, receiver) ==
    [fn |-> "store_agent_memory", agent_id |-> sender, content |-> content,
     metadata |-> [receiver |-> receiver, session_id |-> self.session_id,
                   type |-> "message"]]

escalation_record_call(self, content, sender, receiver) ==
    [fn |-> "store_agent_memory", agent_id |-> sender,
     content |-> <<"ESCALATION: ", content>>,
     metadata |-> [type |-> "escalation", session_id |-> self.session_id,
                   from_agent |-> sender, to_agent |-> receiver]]

\* One store_agent_memory call of _on_message.
store_record(m, c) ==
    Invoke(m, c, Memphora_store_agent_memory(m.mem, c.agent_id, c.content, c.metadata))

\* Variant of _on_message without the early return on empty content.
on_message_noreturn(st, content, sender, receiver) ==
    LET self1 == [st.self EXCEPT !.message_buffer =
                      Append(@, [content |-> content, sender |-> sender,
                                 receiver |-> receiver])]
        m1 == store_record(st.m, message_record_call(st.self, content, sender, receiver))
        m2 == IF st.self.track_escalations /\ has_escalation_keyword(content)
              THEN store_record(m1, escalation_record_call(st.self, content, sender, receiver))
              ELSE m1
    IN  [st EXCEPT !.self = self1, !.m = m2]

\* MemphoraAutoGen._on_message, on st = [self, m, ret].
on_message(st, content, sender, receiver) ==
    IF ~Truthy(content) THEN st
    ELSE LET self1 == [st.self EXCEPT !.message_buffer =
                           Append(@, [content |-> content, sender |-> sender,
                                      receiver |-> receiver])]
             m1 == store_record(st.m, message_record_call(st.self, content, sender, receiver))
             m2 == IF st.self.track_escalations /\ has_escalation_keyword(content)
                   THEN store_record(m1, escalation_record_call(st.self, content, sender,
                                                                receiver))
                   ELSE m1
         IN  [st EXCEPT !.self = self1, !.m = m2]

\* The agent's own receive: an external call, observed with its arguments
\* and the value it returns.
original_receive(st, message, sender, request_reply, silent, value) ==
    [st EXCEPT !.m.calls = Append(@, [fn |-> "original_receive", message |-> message,
                                     sender |-> sender, request_reply |-> request_reply,
                                     silent |-> silent, returns |-> value]),
               !.ret = value]

\* Variant of receive_with_memory that logs but returns None instead of the
\* original's value.
RECURSIVE receive_with_memory_noresult(_, _, _, _, _, _, _, _)
receive_with_memory_noresult(depth, st, agent_name, message, sender, request_reply, silent, value) ==
    IF depth = 0
    THEN original_receive(st, message, sender, request_reply, silent, value)
    ELSE LET st1 == on_message(st, content_of(message), name_of(sender), agent_name)
         IN  IF st1.m.raised THEN st1
             ELSE [receive_with_memory_noresult(depth - 1, st1, agent_name, message, sender,
                                                request_reply, silent, value)
                   EXCEPT !.ret = "None"]

\* agent.receive after `depth` registrations: each receive_with_memory runs
\* _on_message and then calls the receive it replaced.
RECURSIVE receive_with_memory(_, _, _, _, _, _, _, _)
receive_with_memory(depth, st, agent_name, message, sender, request_reply, silent, value) ==
    IF depth = 0
    THEN original_receive(st, message, sender, request_reply, silent, value)
    ELSE LET st1 == on_message(st, content_of(message), name_of(sender), agent_name)
         IN  IF st1.m.raised THEN st1
             ELSE receive_with_memory(depth - 1, st1, agent_name, message, sender,
                                      request_reply, silent, value)

\* A fact of a search result: a dict with or without "text", or another value.
DictFact(text) == [is_dict |-> TRUE, has_text |-> TRUE, text |-> text]
DictFactNoText == [is_dict |-> TRUE, has_text |-> FALSE]
StrFact(text) == [is_dict |-> FALSE, str |-> text]

\* Results of search / search_agent_memories: with or without "facts".
FactResults ==
    { [has_facts |-> FALSE],
      [has_facts |-> TRUE, facts |-> <<>>],
      [has_facts |-> TRUE, facts |-> <<DictFact("hello")>>],
      [has_facts |-> TRUE, facts |-> <<StrFact("Ask a HUMAN"), DictFact("hello")>>],
      [has_facts |-> TRUE, facts |-> <<DictFactNoText, StrFact("Ask a HUMAN")>>] }

\* result.get("facts", [])
facts_of(result) == IF result.has_facts THEN result.facts ELSE <<>>

\* Variant of get_context that joins the rendered facts with a space.
RECURSIVE join_lines_space(_)
join_lines_space(lines) ==
    IF lines = <<>> THEN <<>>
    ELSE IF Len(lines) = 1 THEN lines[1]
    ELSE lines[1] \o <<" ">> \o join_lines_space(Tail(lines))

\* "\n".join(lines)
RECURSIVE join_lines(_)
join_lines(lines) ==
    IF lines = <<>> THEN <<>>
    ELSE IF Len(lines) = 1 THEN lines[1]
    ELSE lines[1] \o <<"\n">> \o join_lines(Tail(lines))

\* if agent_id: an Optional[str] is truthy when given and not empty
agent_id_truthy(agent_id) == agent_id.given /\ Truthy(agent_id.id)

\* MemphoraAutoGen.get_context, on st = [self, m, ret].
get_context_body(st, query, agent_id, limit, result) ==
    LET m1 == IF agent_id_truthy(agent_id)
              THEN Invoke(st.m, [fn |-> "search_agent_memories", agent_id |-> agent_id.id,
                                 query |-> query, limit |-> limit], st.m.mem)
              ELSE Invoke(st.m, [fn |-> "search", query |-> query, limit |-> limit],
                          st.m.mem)
        facts == facts_of(result)
        context_lines == [i \in 1..Len(facts) |->
                             IF facts[i].is_dict
                             THEN (IF facts[i].has_text THEN Chars(facts[i].text) ELSE <<>>)
                             ELSE Chars(facts[i].str)]
    IN  IF m1.raised THEN [st EXCEPT !.m = m1]
        ELSE IF facts = <<>> THEN [st EXCEPT !.m = m1, !.ret = <<>>]
        ELSE [st EXCEPT !.m = m1, !.ret = join_lines(context_lines)]

\* MemphoraAutoGen.get_escalations, on st = [self, m, ret].
get_escalations_body(st, limit, result) ==
    LET m1 == Invoke(st.m, [fn |-> "search", query |-> "ESCALATION", limit |-> limit],
                     st.m.mem)
    IN  IF m1.raised THEN [st EXCEPT !.m = m1]
        ELSE [st EXCEPT !.m = m1, !.ret = facts_of(result)]

\* MemphoraAutoGen.get_conversation_history
get_conversation_history_body(self) == self.message_buffer

\* Variant of clear_session that also clears the backend.
clear_session_body_backend(st) ==
    [st EXCEPT !.self.message_buffer = <<>>,
               !.m = Invoke(st.m, [fn |-> "clear"], Memphora_clear(st.m.mem))]

\* MemphoraAutoGen.clear_session, on st = [self, m, ret].
clear_session_body(st) == [st EXCEPT !.self.message_buffer = <<>>]

\* Entry of a MemphoraAutoGen method.
Enter(self, failAt) == [self |-> self, m |-> Begin(self.memphora, failAt), ret |-> <<>>]

\* The adapter after a method: its fields, and the client's records.
Leave(st) == [st.self EXCEPT !.memphora = st.m.mem]

OthersAG == <<langchain, llama, crew, heap, returned>>

\* MemphoraAutoGen.register_with_agent: agent.receive = receive_with_memory
register_with_agent ==
    /\ agent.depth < MaxDepth
    /\ agent' = [agent EXCEPT !.depth = @ + 1]
    /\ last' = [op |-> "register_with_agent", calls |-> <<>>, raised |-> FALSE]
    /\ UNCHANGED <<autogen, OthersAG>>

\* A call of agent.receive(message, sender, request_reply, silent).
receive ==
    \E delivery \in Deliveries, flags \in ReceiveCalls,
       failAt \in FailAts(2 * agent.depth) :
        LET message == delivery[1]
            sender == delivery[2]
            st == receive_with_memory(agent.depth,
                                      [Enter(autogen, failAt) EXCEPT !.ret = "None"],
                                      name_of(agent), message, sender, flags[1], flags[2],
                                      flags[3])
        IN  /\ Len(st.m.mem) <= MaxStore
            /\ Len(st.self.message_buffer) <= MaxBuffer
            /\ autogen' = Leave(st)
            /\ last' = [op |-> "receive", message |-> message, sender |-> sender,
                        request_reply |-> flags[1], silent |-> flags[2],
                        calls |-> st.m.calls, raised |-> st.m.raised, ret |-> st.ret]
            /\ UNCHANGED <<agent, OthersAG>>

get_context ==
    \E agent_id \in {[given |-> FALSE], [given |-> TRUE, id |-> ""],
                     [given |-> TRUE, id |-> "bob"]},
       result \in FactResults, failAt \in FailAts(1) :
        LET st == get_context_body(Enter(autogen, failAt), "q", agent_id, 10, result)
        IN  /\ autogen' = Leave(st)
            /\ last' = [op |-> "get_context", agent_id |-> agent_id, result |-> result,
                        calls |-> st.m.calls, raised |-> st.m.raised, ret |-> st.ret]
            /\ UNCHANGED <<agent, OthersAG>>

get_escalations ==
    \E result \in {r \in FactResults : ~r.has_facts \/ Len(r.facts) = 1}, failAt \in FailAts(1) :
        LET st == get_escalations_body(Enter(autogen, failAt), 20, result)
        IN  /\ autogen' = Leave(st)
            /\ last' = [op |-> "get_escalations", result |-> result,
                        calls |-> st.m.calls, raised |-> st.m.raised, ret |-> st.ret]
            /\ UNCHANGED <<agent, OthersAG>>

get_conversation_history ==
    /\ last' = [op |-> "get_conversation_history", calls |-> <<>>, raised |-> FALSE,
                ret |-> get_conversation_history_body(autogen)]
    /\ UNCHANGED <<autogen, agent, OthersAG>>

clear_session ==
    LET st == clear_session_body(Enter(autogen, 0))
    IN  /\ autogen' = Leave(st)
        /\ last' = [op |-> "clear_session", calls |-> st.m.calls, raised |-> st.m.raised]
        /\ UNCHANGED <<agent, OthersAG>>

\* =========================================================================
\* Initial state and specifications
\* =========================================================================
\* Every adapter right after its constructor, with the default arguments.
Init ==
    /\ langchain = MemphoraLangChain_init("input", TRUE)
    /\ llama = MemphoraLlamaIndex_init
    /\ crew = MemphoraCrewAI_init("my-crew")
    /\ heap = <<>>
    /\ returned = {}
    /\ autogen = MemphoraAutoGen_init("session-123", TRUE)
    /\ agent = Agent_init(TRUE)
    /\ last = [op |-> "init", calls |-> <<>>, raised |-> FALSE]

\* MemphoraLangChain constructed with any input_key and return_messages.
InitLangChain ==
    /\ \E input_key \in {"input", "question"}, return_messages \in BOOLEAN :
          langchain = MemphoraLangChain_init(input_key, return_messages)
    /\ llama = MemphoraLlamaIndex_init
    /\ crew = MemphoraCrewAI_init("my-crew")
    /\ heap = <<>>
    /\ returned = {}
    /\ autogen = MemphoraAutoGen_init("session-123", TRUE)
    /\ agent = Agent_init(TRUE)
    /\ last = [op |-> "init", calls |-> <<>>, raised |-> FALSE]

NextLangChain == load_memory_variables \/ save_context \/ clear

SpecLangChain == InitLangChain /\ [][NextLangChain]_vars

\* MemphoraCrewAI constructed for any crew.
InitCrewAI ==
    /\ langchain = MemphoraLangChain_init("input", TRUE)
    /\ llama = MemphoraLlamaIndex_init
    /\ \E crew_id \in {"my-crew", "crew-2"} : crew = MemphoraCrewAI_init(crew_id)
    /\ heap = <<>>
    /\ returned = {}
    /\ autogen = MemphoraAutoGen_init("session-123", TRUE)
    /\ agent = Agent_init(TRUE)
    /\ last = [op |-> "init", calls |-> <<>>, raised |-> FALSE]

NextCrewAI ==
    \/ for_agent
    \/ store_shared
    \/ search_shared
    \/ get_crew_context
    \/ MemphoraAgentMemory_store
    \/ MemphoraAgentMemory_search
    \/ MemphoraAgentMemory_get_all
    \/ MemphoraAgentMemory_search_crew

SpecCrewAI == InitCrewAI /\ [][NextCrewAI]_vars

\* MemphoraAutoGen constructed with or without escalation tracking.
InitAutoGen ==
    /\ langchain = MemphoraLangChain_init("input", TRUE)
    /\ llama = MemphoraLlamaIndex_init
    /\ crew = MemphoraCrewAI_init("my-crew")
    /\ heap = <<>>
    /\ returned = {}
    /\ \E track_escalations \in BOOLEAN :
          autogen = MemphoraAutoGen_init("session-123", track_escalations)
    /\ agent = Agent_init(TRUE)
    /\ last = [op |-> "init", calls |-> <<>>, raised |-> FALSE]

NextAutoGen ==
    \/ register_with_agent
    \/ receive
    \/ get_context
    \/ get_escalations
    \/ get_conversation_history
    \/ clear_session

SpecAutoGen == InitAutoGen /\ [][NextAutoGen]_vars

NextLlamaIndex ==
    \/ MemphoraLlamaIndex_get
    \/ MemphoraLlamaIndex_put
    \/ MemphoraLlamaIndex_get_all
    \/ MemphoraLlamaIndex_reset
    \/ MemphoraLlamaIndex_set
    \/ MemphoraLlamaMemory_put
    \/ MemphoraLlamaMemory_reset

SpecLlamaIndex == Init /\ [][NextLlamaIndex]_vars

\* =========================================================================
\* Properties
\* =========================================================================
\* A key is present in a mapping with a non-empty value.
Present(d, k) == k \in DOMAIN d /\ d[k] # ""

\* C1: save_context invokes the backend's store_conversation exactly once,
\* with (human input, AI output), when the values under the input key and the
\* output key are both present and non-empty, and invokes nothing at all when
\* either is missing or empty.
C1_SaveStoresWholeTurnsOnly ==
    last.op = "save_context" =>
        last.calls =
            IF Present(last.inputs, langchain.input_key)
               /\ Present(last.outputs, langchain.output_key)
            THEN << [fn |-> "store_conversation",
                     human |-> last.inputs[langchain.input_key],
                     ai |-> last.outputs[langchain.output_key]] >>
            ELSE << >>

C1_Witness ==
    /\ last.op = "save_context"
    /\ Len(last.calls) = 1
    /\ ~last.raised
    /\ Len(langchain.memphora) = 2

\* C2: when the input key is missing from the inputs (or maps to the empty
\* string), load_memory_variables returns the empty list under the memory key
\* in "as messages" mode and the empty string in "as string" mode, and makes
\* no backend call.
C2_LoadWithoutQueryIsEmpty ==
    (last.op = "load_memory_variables" /\ ~Present(last.inputs, langchain.input_key)) =>
        /\ last.calls = << >>
        /\ ~last.raised
        /\ last.ret.key = "history"
        /\ last.ret.value = IF langchain.return_messages
                            THEN [kind |-> "list", items |-> << >>]
                            ELSE [kind |-> "str", text |-> ""]

C2_Witness ==
    /\ last.op = "load_memory_variables"
    /\ langchain.input_key \notin DOMAIN last.inputs
    /\ DOMAIN last.inputs # {}
    /\ ~langchain.return_messages
    /\ last.ret.value = [kind |-> "str", text |-> ""]

\* C3: a put(user, assistant) forwards exactly the pair to the backend's
\* store_conversation; when it returns, the buffer is the prior buffer
\* followed by the user entry and then the assistant entry; when the store
\* call raises, the buffer is left as it was.
C3_PutStoresThenAppendsTwo ==
    [][ last'.op = "put" =>
          /\ last'.calls = << [fn |-> "store_conversation",
                               human |-> last'.user_message,
                               ai |-> last'.assistant_message] >>
          /\ llama'.chat_history =
                IF last'.raised THEN llama.chat_history
                ELSE llama.chat_history
                     \o << [role |-> "user", content |-> last'.user_message],
                           [role |-> "assistant", content |-> last'.assistant_message] >>
      ]_vars

C3_Witness ==
    /\ last.op = "put"
    /\ ~last.raised
    /\ Len(llama.chat_history) = 3
    /\ llama.chat_history[1].role = "system"

\* The positions (counted from 0) whose pair set() stores: even, followed by
\* another message, user-role there and assistant-role next.
PairPositions(messages) ==
    { i \in 0..(Len(messages) - 1) :
        /\ i % 2 = 0
        /\ i + 1 < Len(messages)
        /\ messages[i + 1].role = "user"
        /\ messages[i + 2].role = "assistant" }

\* The k-th smallest element of a set of numbers.
KthOf(P, k) == CHOOSE p \in P : Cardinality({q \in P : q < p}) = k - 1

C10_WrapperPutPairsOrDrops ==
    [][ last'.op = "wrapper_put" =>
          LET h == llama.chat_history
              msg == last'.message
          IN  IF /\ msg.attrs
                 /\ msg.role = "assistant"
                 /\ h # << >>
                 /\ h[Len(h)].role = "user"
              THEN /\ last'.calls = << [fn |-> "store_conversation",
                                        human |-> h[Len(h)].content,
                                        ai |-> msg.content] >>
                   /\ ~last'.raised =>
                          llama'.chat_history =
                              h \o << [role |-> "user", content |-> h[Len(h)].content],
                                      [role |-> "assistant", content |-> msg.content] >>
              ELSE /\ last'.calls = << >>
                   /\ ~last'.raised
                   /\ llama'.chat_history = h
      ]_vars

C10_Witness ==
    /\ last.op = "wrapper_put"
    /\ Len(last.calls) = 1
    /\ ~last.raised
    /\ Len(llama.chat_history) = 3

\* C5: for_agent is memoized.  Every handle it returns is a live
\* MemphoraAgentMemory bound to the requested agent id and to the adapter's
\* crew id; over the whole run, two calls returned the same handle exactly
\* when they asked for the same agent id.
C5_ForAgentMemoized ==
    /\ \A p \in returned :
          /\ p.handle \in 1..Len(heap)
          /\ heap[p.handle].agent_id = p.agent_id
          /\ heap[p.handle].crew_id = crew.crew_id
    /\ \A p, q \in returned : (p.agent_id = q.agent_id) <=> (p.handle = q.handle)
    /\ last.op = "for_agent" =>
          [agent_id |-> last.agent_id, handle |-> last.ret] \in returned

\* for_agent has been called again for an agent that already had a handle,
\* after other agents got theirs and records were stored.
C5_Witness ==
    /\ last.op = "for_agent"
    /\ Cardinality(returned) = 3
    /\ last.ret = 1
    /\ Len(heap) = 3
    /\ Len(crew.memphora) >= 1

\* ----------------------------------------------------------------- AutoGen
\* The text a message carries: the string itself, or the "content" field of
\* a structured message, nothing when the field is absent.
TextOf(message) ==
    IF message.kind = "str" THEN message.text
    ELSE IF message.has_content THEN message.content ELSE ""

SenderName(sender) == IF sender.has_name THEN sender.name ELSE "unknown"

\* Two characters are the same letter up to case.
SameLetter(a, b) ==
    \/ a = b
    \/ \E i \in 1..Len(UpperCase) : {a, b} = {UpperCase[i], LowerCase[i]}

\* The word occurs in the characters, whatever the case of the letters.
Occurs(word, chars) ==
    \E i \in 0..(Len(chars) - Len(word)) :
        \A j \in 1..Len(word) : SameLetter(chars[i + j], word[j])

\* The texts that mention one of 'escalate', 'human', 'supervisor',
\* 'help needed', in any case.
Mentioning ==
    { t \in MessageTexts \cup {""} :
        \/ Occurs(<<"e", "s", "c", "a", "l", "a", "t", "e">>, Chars(t))
        \/ Occurs(<<"h", "u", "m", "a", "n">>, Chars(t))
        \/ Occurs(<<"s", "u", "p", "e", "r", "v", "i", "s", "o", "r">>, Chars(t))
        \/ Occurs(<<"h", "e", "l", "p", " ", "n", "e", "e", "d", "e", "d">>, Chars(t)) }

\* The backend calls of a receive that returned: all but the final call,
\* which is the agent's original receive.
BackendCalls(l) == SubSeq(l.calls, 1, Len(l.calls) - 1)

\* The records one interception of a non-empty message must store.
ExpectedRecords(l) ==
    LET content == TextOf(l.message)
        from == SenderName(l.sender)
        to == IF agent.has_name THEN agent.name ELSE "unknown"
        message_record ==
            [fn |-> "store_agent_memory", agent_id |-> from, content |-> content,
             metadata |-> [receiver |-> to, session_id |-> autogen.session_id,
                           type |-> "message"]]
        escalation_record ==
            [fn |-> "store_agent_memory", agent_id |-> from,
             content |-> <<"ESCALATION: ", content>>,
             metadata |-> [type |-> "escalation", session_id |-> autogen.session_id,
                           from_agent |-> from, to_agent |-> to]]
    IN  IF autogen.track_escalations /\ content \in Mentioning
        THEN <<message_record, escalation_record>>
        ELSE <<message_record>>

\* C6: every interception of a message with non-empty content stores the
\* type="message" record and, when escalation tracking is on and the text
\* mentions a keyword in any case, after it the "ESCALATION: " record of
\* type="escalation" with the from/to agent names; otherwise the one
\* type="message" record alone.  (One interception for each time the agent's
\* receive was wrapped; stated for a receive whose backend calls all succeed.)
C6_EscalationStoresSecondRecord ==
    /\ \A t \in MessageTexts : has_escalation_keyword(t) <=> t \in Mentioning
    /\ {"please escalate now", "Ask a HUMAN", "Help Needed!", "the Supervisor", "inhumane"}
          = Mentioning
    /\ (last.op = "receive" /\ ~last.raised /\ TextOf(last.message) # "") =>
          LET E == ExpectedRecords(last)
              B == BackendCalls(last)
          IN  /\ Len(B) = agent.depth * Len(E)
              /\ \A k \in 1..Len(B) : B[k] = E[((k - 1) % Len(E)) + 1]

C6_Witness ==
    /\ last.op = "receive"
    /\ ~last.raised
    /\ agent.depth = 1
    /\ autogen.track_escalations
    /\ TextOf(last.message) = "please escalate now"
    /\ Len(last.calls) = 3
    /\ last.calls[2].metadata.type = "escalation"

\* C7: a receive whose message has empty content (an empty string, a
\* structured message without "content" or with an empty one) leaves the
\* message buffer and the backend's records as they were and makes no
\* backend call, whoever sends it and whatever the escalation setting.
C7_EmptyContentDropped ==
    [][ (last'.op = "receive" /\ TextOf(last'.message) = "") =>
          /\ autogen'.message_buffer = autogen.message_buffer
          /\ autogen'.memphora = autogen.memphora
          /\ ~last'.raised
          /\ \A k \in 1..Len(last'.calls) : last'.calls[k].fn = "original_receive"
      ]_vars

C7_Witness ==
    /\ last.op = "receive"
    /\ last.message = [kind |-> "dict", has_content |-> FALSE]
    /\ agent.depth = 1
    /\ Len(autogen.message_buffer) = 1
    /\ Len(autogen.memphora) = 2

\* The agent's original receive ran exactly once, as the last external call,
\* with the arguments of the receive call, and its value was returned.
Transparent(l) ==
    /\ Len(l.calls) >= 1
    /\ l.calls[Len(l.calls)] =
          [fn |-> "original_receive", message |-> l.message, sender |-> l.sender,
           request_reply |-> l.request_reply, silent |-> l.silent, returns |-> l.ret]
    /\ \A k \in 1..(Len(l.calls) - 1) : l.calls[k].fn # "original_receive"

\* C8 as claimed: after register_with_agent every receive call, also one
\* whose logging step raises, runs the original receive exactly once after
\* the logging, with the same arguments, and returns its value.
C8_TransparentAlways ==
    (last.op = "receive" /\ agent.depth >= 1) => Transparent(last)

\* C8, amended: a receive whose logging step completes (empty content
\* included) runs the original receive exactly once, after the logging, with
\* the same arguments, and returns its value; a receive whose logging step
\* raises propagates the error and never runs the original receive.
C8_TransparentUnlessLoggingRaises ==
    (last.op = "receive" /\ agent.depth >= 1) =>
        IF last.raised
        THEN /\ Len(last.calls) >= 1
             /\ \A k \in 1..Len(last.calls) : last.calls[k].fn = "store_agent_memory"
        ELSE Transparent(last)

C8_Witness ==
    /\ last.op = "receive"
    /\ agent.depth = 1
    /\ ~last.raised
    /\ last.ret = "reply"
    /\ Len(last.calls) = 2
    /\ last.calls[1].fn = "store_agent_memory"

\* A sequence is an initial part of another.
IsPrefix(s, t) == Len(s) <= Len(t) /\ SubSeq(t, 1, Len(s)) = s

\* C9: clear_session empties the local buffer (get_conversation_history then
\* returns the empty list), makes no backend call and leaves the backend's
\* records as they are; and no step of the adapter removes a record or calls
\* the backend for anything but store_agent_memory, search_agent_memories,
\* search and the agent's own receive.
C9_ClearSessionIsLocal ==
    [][ /\ IsPrefix(autogen.memphora, autogen'.memphora)
        /\ \A k \in 1..Len(last'.calls) :
              last'.calls[k].fn \in {"store_agent_memory", "search_agent_memories",
                                     "search", "original_receive"}
        /\ last'.op = "clear_session" =>
              /\ autogen'.message_buffer = << >>
              /\ get_conversation_history_body(autogen') = << >>
              /\ last'.calls = << >>
              /\ ~last'.raised
              /\ autogen'.memphora = autogen.memphora
      ]_vars

C9_Witness ==
    /\ last.op = "clear_session"
    /\ Len(autogen.memphora) = 2
    /\ autogen.message_buffer = << >>

\* The line a fact is rendered as: the "text" field of a structured fact
\* (nothing when it has none), the string itself otherwise.
LineOf(fact) ==
    IF fact.is_dict THEN (IF fact.has_text THEN Chars(fact.text) ELSE << >>)
    ELSE Chars(fact.str)

\* Where the line of the i-th fact starts in the joined text (counted from 0).
RECURSIVE StartOf(_, _)
StartOf(facts, i) ==
    IF i = 1 THEN 0 ELSE StartOf(facts, i - 1) + Len(LineOf(facts[i - 1])) + 1

\* C11: get_context issues exactly one backend search, search_agent_memories
\* for the agent when a (non-empty) agent id is given and the session-wide
\* search otherwise; when it returns, the result is the empty string if the
\* facts list is empty or absent, and otherwise the facts' lines in result
\* order, each followed by a newline except the last.
C11_GetContextRendersFacts ==
    last.op = "get_context" =>
        LET facts == IF last.result.has_facts THEN last.result.facts ELSE << >>
            n == Len(facts)
        IN  /\ last.calls =
                  IF last.agent_id.given /\ last.agent_id.id # ""
                  THEN << [fn |-> "search_agent_memories", agent_id |-> last.agent_id.id,
                           query |-> "q", limit |-> 10] >>
                  ELSE << [fn |-> "search", query |-> "q", limit |-> 10] >>
            /\ ~last.raised =>
                  IF n = 0 THEN last.ret = << >>
                  ELSE /\ Len(last.ret) = StartOf(facts, n) + Len(LineOf(facts[n]))
                       /\ \A i \in 1..n :
                             SubSeq(last.ret, StartOf(facts, i) + 1,
                                    StartOf(facts, i) + Len(LineOf(facts[i])))
                                 = LineOf(facts[i])
                       /\ \A i \in 2..n : last.ret[StartOf(facts, i)] = "\n"

\* A per-agent search whose two facts, a plain string and a structured one,
\* came back as two lines.
C11_Witness ==
    /\ last.op = "get_context"
    /\ ~last.raised
    /\ last.agent_id = [given |-> TRUE, id |-> "bob"]
    /\ last.result.has_facts
    /\ Len(last.result.facts) = 2
    /\ last.calls[1].fn = "search_agent_memories"
    /\ Len(last.ret) = 17
    /\ last.ret[12] = "\n"

\* C12: when the host delivers a user-role message to the wrapper's put and
\* then the assistant-role reply to the wrapper's put, the reply's put
\* forwards the turn (user text, assistant text) to the backend store exactly
\* once and, when it returns, the turn is at the end of the adapter's buffer.
C12_WrapperStoresCompletedTurn ==
    [][ ( /\ last.op = "wrapper_put"
          /\ last.message.attrs
          /\ last.message.role = "user"
          /\ last'.op = "wrapper_put"
          /\ last'.message.attrs
          /\ last'.message.role = "assistant" ) =>
          /\ last'.calls = << [fn |-> "store_conversation",
                               human |-> last.message.content,
                               ai |-> last'.message.content] >>
          /\ ~last'.raised =>
                /\ Len(llama'.chat_history) >= 2
                /\ SubSeq(llama'.chat_history, Len(llama'.chat_history) - 1,
                          Len(llama'.chat_history))
                       = << [role |-> "user", content |-> last.message.content],
                            [role |-> "assistant", content |-> last'.message.content] >>
      ]_vars

====
